---- MODULE Spec2Model ----
(***************************************************************************)
(* A model of src/lib/SunoApi.ts: the SunoApi client class.                *)
(*                                                                         *)
(* One client instance, one logical thread of control.  An action is the   *)
(* code that runs between two awaits: it ends where the code awaits a      *)
(* request or a sleep, and the next action is the continuation that runs   *)
(* when that request answers or that sleep ends.  The remote service is    *)
(* the environment: each answer (success or failure, body, latency) is a   *)
(* nondeterministic input of the continuation that receives it.            *)
(*                                                                         *)
(* Time is in seconds (the code's milliseconds / 1000).  The code only     *)
(* ever reads differences of Date.now(), so now is Date.now() counted from *)
(* the latest instant the operation in progress can refer to: its start,   *)
(* and from there on the instant generateSongs records as startTime.       *)
(*                                                                         *)
(* init is called once per instance, first, and an instance whose init     *)
(* threw is not used again (newSunoApi); the other public methods may be   *)
(* called whenever no operation is in progress, also on an instance that   *)
(* was never initialised.                                                  *)
(***************************************************************************)
EXTENDS Integers, Sequences, FiniteSets, TLC

\* ---------------------------------------------------------------- bounds
\* Largest latency (s) the model gives a request that has no timeout.
MaxLatency == 1
\* Number of distinct job ids the service may hand out.
NumJobs == 2
\* Lyrics polling has no bound in the code; the model stops after this many
\* lyrics-status checks.
MaxLyricsPolls == 3
\* Longest metadata.prompt, in characters, the mappings alone are applied to.
MaxPromptLen == 4
\* Number of calls the two interleaved callers make between them.
MaxRaceCalls == 3

\* ------------------------------------------------------- program constants
\* while (Date.now() - startTime < 100000)
POLL_TIMEOUT == 100
\* await sleep(5, 5) before the first status check
FIRST_SLEEP == 5
\* await sleep(3, 6) between status checks
POLL_SLEEP_MIN == 3
POLL_SLEEP_MAX == 6
\* await sleep(1, 2) in keepAlive(true)
KA_SLEEP_MIN == 1
KA_SLEEP_MAX == 2
\* await sleep(2) in the lyrics loop
LYRICS_SLEEP == 2
\* timeout: 3000 of the feed request, timeout: 10000 of the submission
FEED_TIMEOUT == 3
SUBMIT_TIMEOUT == 10

\* ------------------------------------------------------------ value domains
\* undefined: an unset field, an absent member of a response body
None == "undefined"
Tokens == {"jwt1", "jwt2"}
SessionIds == {"sess"}
JobIds == 1..NumJobs
Status == {"queued", "streaming", "complete"}
LyricsStatus == {"running", "complete"}
LyricsTexts == {"la", "lo"}

Min(a, b) == IF a < b THEN a ELSE b

\* A string is the sequence of its characters: a letter, a space, a newline.
Chars == {"a", " ", "\n"}
\* A metadata.prompt that is absent (undefined): not a string.
NoPrompt == <<None>>
\* The values metadata.prompt may have: absent, or a string ("" included).
Prompts == {NoPrompt} \cup UNION {[1..n -> Chars] : n \in 0..MaxPromptLen}
\* The prompt of the clips the service answers the client's methods with.  No
\* branch of the client reads it; the mappings alone are applied to every
\* prompt of Prompts.
ServedPrompts == {<<"a", "\n">>}

\* An array of raw clips.  The service lists a job at most once, in increasing
\* id order; it may list any subset of the jobs.
Records == [id : JobIds, status : Status, prompt : ServedPrompts]
Snapshots ==
  {s \in UNION {[1..n -> Records] : n \in 0..NumJobs} :
     \A i \in 1..(Len(s) - 1) : s[i].id < s[i + 1].id}

\* sleep(x, y): a whole number of seconds between x and y.
Sleep(x, y) == x..y
\* Time a request may take to answer: below its timeout, or any time when it
\* has none (the model stops at MaxLatency).
Latency(timeout) == 0..Min(MaxLatency, timeout - 1)
LatencyNoTimeout == 0..MaxLatency

VARIABLES
  sid,            \* this.sid
  currentToken,   \* this.currentToken
  op,             \* the public method in progress, or the last one called
  pc,             \* where that method is
  kaRet,          \* the continuation of the keepAlive call in progress
  isWait,         \* keepAlive's parameter
  renewResponse,  \* keepAlive's renewResponse.data['jwt'] during its sleep
  wait_audio,     \* generateSongs' parameter
  clips,          \* generateSongs' response.data['clips'], where it maps them
  songIds,        \* generateSongs' songIds
  startTime,      \* generateSongs' startTime
  lastResponse,   \* generateSongs' lastResponse
  now,            \* Date.now()
  result,         \* what the method returned
  error,          \* what the method threw
  out,            \* the request sent by the last step, if it sent one
  lastRenewal,    \* history: the jwt of the latest answered renewal request
  lastCheck,      \* history: the records of the latest answered feed request
  lyricsCheck,    \* history: the body of the latest answered lyrics-status request
  refreshed,      \* history: a keepAlive call has completed in this method
  renewSent,      \* history: a renewal request was sent in this method
  nSubmit,        \* history: generation submissions sent in this method
  polled,         \* history: a feed request was sent in this method
  lyricsPolls,    \* history: lyrics-status requests sent in this method
  identity,       \* history: the session id of the identity answer of this method
  submitStatus,   \* history: the HTTP status of the answered submission of this method
  served,         \* history: a request to the service was sent in this method
  refreshedSince, \* history: a keepAlive call has completed since the method's
                  \* latest status request (feed, lyrics status), or its start
  clip,           \* the mappings alone: a raw clip of the service
  fromGenerate,   \* the mappings alone: the record generateSongs makes of clip
  fromGet,        \* the mappings alone: the record get makes of clip
  race            \* two interleaved operations: their state

fields == <<sid, currentToken>>
ka == <<kaRet, isWait, renewResponse>>
songs == <<wait_audio, clips, songIds, startTime, lastResponse>>
hist == <<lastRenewal, lastCheck, lyricsCheck, refreshed, renewSent, nSubmit, polled, lyricsPolls>>
obs == <<identity, submitStatus, served>>
\* The client's own variables, and those of the other specifications.
client == <<fields, op, pc, ka, songs, now, result, error, out, hist, obs, refreshedSince>>
aux == <<clip, fromGenerate, fromGet, race>>
vars == <<client, aux>>

NoReq == [kind |-> "none", auth |-> None]
NoResult == [tag |-> "none", val |-> <<>>]
NoLyrics == [status |-> None, text |-> None]

AuthKinds == {"submit", "feed", "lyrics_submit", "lyrics_status", "billing"}
GenOps == {"generate", "custom_generate"}
Quiescent == {"idle", "done", "error"}

\* Request with the token init obtained, whatever the field holds now.
Request_Captured(kind) == [kind |-> kind, auth |-> "jwt1"]

\* The request interceptor: the Authorization header is the stored token, and
\* there is none while no token is stored.
Request(kind) ==
  [kind |-> kind, auth |-> IF currentToken # None THEN currentToken ELSE None]

ClientInit ==
  /\ sid = None
  /\ currentToken = None
  /\ op = "none"
  /\ pc = "idle"
  /\ kaRet = "none"
  /\ isWait = FALSE
  /\ renewResponse = None
  /\ wait_audio = FALSE
  /\ clips = <<>>
  /\ songIds = <<>>
  /\ startTime = 0
  /\ lastResponse = <<>>
  /\ now = 0
  /\ result = NoResult
  /\ error = "none"
  /\ out = NoReq
  /\ lastRenewal = None
  /\ lastCheck = <<>>
  /\ lyricsCheck = NoLyrics
  /\ refreshed = FALSE
  /\ renewSent = FALSE
  /\ nSubmit = 0
  /\ polled = FALSE
  /\ lyricsPolls = 0
  /\ identity = "unanswered"
  /\ submitStatus = "unanswered"
  /\ served = FALSE
  /\ refreshedSince = FALSE

\* A raw clip not given, a record not made.
NoClip == [id |-> 0, status |-> None, prompt |-> NoPrompt]
NoRecord == [id |-> 0, status |-> None, lyric |-> NoPrompt, prompt |-> NoPrompt]
\* The two callers of the interleaved operations.
Procs == {1, 2}
\* No interleaved operations: both callers idle on a client not initialised.
NoRace ==
  [on |-> FALSE,
   op |-> [p \in Procs |-> "none"],       \* the method each caller is in
   pc |-> [p \in Procs |-> "idle"],       \* where it is
   isWait |-> [p \in Procs |-> FALSE],    \* its keepAlive's isWait
   jwt |-> [p \in Procs |-> None],        \* its keepAlive's renewResponse jwt
   calls |-> 0,                           \* calls made so far
   issued |-> 0,                          \* renewals the service has answered
   overlapped |-> FALSE,      \* history: a call began while another was under way
   overwroteNewer |-> FALSE,  \* history: a token was stored over a later one
   sentSuperseded |-> FALSE]  \* history: a request left with a token that was
                              \* not the latest the service had issued

Init ==
  /\ ClientInit
  /\ clip = NoClip
  /\ fromGenerate = NoRecord
  /\ fromGet = NoRecord
  /\ race = NoRace

\* ------------------------------------------------------------ public calls
PublicOps ==
  {"init", "keepAlive", "generate", "custom_generate", "generateLyrics", "get",
   "get_credits"}

\* The first label of each public method.
Entry(o) ==
  CASE o = "init" -> "init_enter"
    [] o = "keepAlive" -> "ka_enter"
    [] o = "generate" -> "generate_enter"
    [] o = "custom_generate" -> "songs_enter"
    [] o = "generateLyrics" -> "lyrics_enter"
    [] o = "get" -> "get_enter"
    [] o = "get_credits" -> "credits_enter"

\* A caller invokes public method o; w is its boolean argument (isWait of
\* keepAlive, wait_audio of generate and custom_generate).  An instance whose
\* init threw is never used: newSunoApi hands out the instance init returns.
Call(o, w) ==
  /\ pc \in Quiescent
  /\ o = "init" => op = "none"
  /\ ~(op = "init" /\ pc = "error")
  /\ o \notin (GenOps \cup {"keepAlive"}) => w = FALSE
  /\ op' = o
  /\ pc' = Entry(o)
  /\ isWait' = IF o = "keepAlive" THEN w ELSE FALSE
  /\ wait_audio' = IF o \in GenOps THEN w ELSE FALSE
  /\ kaRet' = "none"
  /\ renewResponse' = None
  /\ clips' = <<>>
  /\ songIds' = <<>>
  /\ startTime' = 0
  /\ lastResponse' = <<>>
  /\ now' = 0
  /\ result' = NoResult
  /\ error' = "none"
  /\ out' = NoReq
  /\ lastCheck' = <<>>
  /\ lyricsCheck' = NoLyrics
  /\ refreshed' = FALSE
  /\ renewSent' = FALSE
  /\ nSubmit' = 0
  /\ polled' = FALSE
  /\ lyricsPolls' = 0
  /\ identity' = "unanswered"
  /\ submitStatus' = "unanswered"
  /\ served' = FALSE
  /\ UNCHANGED <<fields, lastRenewal>>
  /\ refreshedSince' = FALSE
  /\ UNCHANGED aux

\* ------------------------------------------------------------------ keepAlive
\* KeepAliveEnter without the session-id check: the renewal is always posted.
KeepAliveEnter_NoCheck(w, ret) ==
  /\ pc' = "ka_post"
  /\ out' = Request("renew")
  /\ kaRet' = ret
  /\ isWait' = w
  /\ renewSent' = TRUE
  /\ UNCHANGED error

\* keepAlive(w) up to its first await, called with continuation ret: throws
\* when no session id is set, else posts the renewal request.
KeepAliveEnter(w, ret) ==
  IF sid = None
  THEN /\ pc' = "error"
       /\ error' = "StateError"
       /\ out' = NoReq
       /\ UNCHANGED <<kaRet, isWait, renewSent>>
  ELSE /\ pc' = "ka_post"
       /\ out' = Request("renew")
       /\ kaRet' = ret
       /\ isWait' = w
       /\ renewSent' = TRUE
       /\ UNCHANGED error

\* The token keepAlive holds once its renewal request has answered with jwt:
\* with isWait the assignment to this.currentToken comes after the sleep.
TokenAfterRenewal(jwt) == IF isWait THEN currentToken ELSE jwt

\* SidAfterFailedRenewal with the session forgotten on a failed renewal.
SidAfterFailedRenewal_Reset == None

\* this.sid after a renewal request that failed: the post throws and
\* keepAlive assigns nothing.
SidAfterFailedRenewal == sid

\* TokenAfterFailedRenewal with the token dropped on a failed renewal.
TokenAfterFailedRenewal_Cleared == None

\* this.currentToken after a renewal request that failed.
TokenAfterFailedRenewal == currentToken

\* The renewal request answers.  It has no timeout.
RenewRespond ==
  /\ pc = "ka_post"
  /\ out' = NoReq
  /\ \E lat \in LatencyNoTimeout :
       /\ now' = now + lat
       /\ \/ /\ pc' = "error"
             /\ error' = "TransportError"
             /\ sid' = SidAfterFailedRenewal
             /\ currentToken' = TokenAfterFailedRenewal
             /\ UNCHANGED <<renewResponse, lastRenewal, refreshed, refreshedSince>>
          \/ \E jwt \in Tokens \cup {None} :
               /\ lastRenewal' = jwt
               /\ renewResponse' = jwt
               /\ currentToken' = TokenAfterRenewal(jwt)
               /\ pc' = IF isWait THEN "ka_sleep" ELSE kaRet
               /\ refreshed' = (refreshed \/ ~isWait)
               /\ refreshedSince' = (refreshedSince \/ ~isWait)
               /\ UNCHANGED <<sid, error>>
  /\ UNCHANGED <<op, kaRet, isWait, songs, result, lastCheck, lyricsCheck,
                 renewSent, nSubmit, polled, lyricsPolls>>
  /\ UNCHANGED obs
  /\ UNCHANGED aux

\* keepAlive(true): sleep(1, 2) ends, the token is stored, keepAlive returns.
KeepAliveWake ==
  /\ pc = "ka_sleep"
  /\ \E d \in Sleep(KA_SLEEP_MIN, KA_SLEEP_MAX) : now' = now + d
  /\ currentToken' = renewResponse
  /\ refreshed' = TRUE
  /\ pc' = kaRet
  /\ out' = NoReq
  /\ UNCHANGED <<sid, op, ka, songs, result, error, lastRenewal, lastCheck,
                 lyricsCheck, renewSent, nSubmit, polled, lyricsPolls>>
  /\ UNCHANGED obs
  /\ refreshedSince' = TRUE
  /\ UNCHANGED aux

\* The public keepAlive(isWait).
KeepAliveCall ==
  /\ pc = "ka_enter"
  /\ KeepAliveEnter(isWait, "ka_return")
  /\ UNCHANGED <<fields, op, renewResponse, songs, now, result, lastRenewal,
                 lastCheck, lyricsCheck, refreshed, nSubmit, polled, lyricsPolls>>
  /\ UNCHANGED obs
  /\ UNCHANGED refreshedSince
  /\ UNCHANGED aux

KeepAliveReturn ==
  /\ pc = "ka_return"
  /\ pc' = "done"
  /\ result' = [tag |-> "void", val |-> <<>>]
  /\ out' = NoReq
  /\ UNCHANGED <<fields, op, ka, songs, now, error, hist>>
  /\ UNCHANGED obs
  /\ UNCHANGED refreshedSince
  /\ UNCHANGED aux

\* ----------------------------------------------------------------------- init
\* init -> getAuthToken: the identity request is sent.
InitEnter ==
  /\ pc = "init_enter"
  /\ pc' = "init_wait"
  /\ out' = Request("identity")
  /\ UNCHANGED <<fields, op, ka, songs, now, result, error, hist>>
  /\ UNCHANGED obs
  /\ UNCHANGED refreshedSince
  /\ UNCHANGED aux

\* HasSessionId without the check: any identity answer is accepted.
HasSessionId_Always(s) == TRUE

\* if (!sessionResponse?.data?.response?.['last_active_session_id'])
HasSessionId(s) == s # None

\* getAuthToken: the identity request answers; without a session id it throws,
\* with one it stores it and init goes on to keepAlive().
IdentityRespond ==
  /\ pc = "init_wait"
  /\ \E lat \in LatencyNoTimeout :
       /\ now' = now + lat
       /\ \/ /\ pc' = "error"
             /\ error' = "TransportError"
             /\ out' = NoReq
             /\ UNCHANGED <<sid, kaRet, isWait, renewSent, identity>>
          \/ \E s \in SessionIds \cup {None} :
               /\ identity' = s
               /\ IF ~HasSessionId(s)
                  THEN /\ pc' = "error"
                       /\ error' = "AuthError"
                       /\ out' = NoReq
                       /\ UNCHANGED <<sid, kaRet, isWait, renewSent>>
                  ELSE /\ sid' = s
                       /\ pc' = "init_ka"
                       /\ out' = NoReq
                       /\ UNCHANGED <<error, kaRet, isWait, renewSent>>
  /\ UNCHANGED <<currentToken, op, renewResponse, songs, result, lastRenewal,
                 lastCheck, lyricsCheck, refreshed, nSubmit, polled, lyricsPolls>>
  /\ UNCHANGED <<submitStatus, served>>
  /\ UNCHANGED refreshedSince
  /\ UNCHANGED aux

\* init: await this.keepAlive()
InitKeepAlive ==
  /\ pc = "init_ka"
  /\ KeepAliveEnter(FALSE, "init_return")
  /\ UNCHANGED <<fields, op, renewResponse, songs, now, result, lastRenewal,
                 lastCheck, lyricsCheck, refreshed, nSubmit, polled, lyricsPolls>>
  /\ UNCHANGED obs
  /\ UNCHANGED refreshedSince
  /\ UNCHANGED aux

InitReturn ==
  /\ pc = "init_return"
  /\ pc' = "done"
  /\ result' = [tag |-> "this", val |-> <<>>]
  /\ out' = NoReq
  /\ UNCHANGED <<fields, op, ka, songs, now, error, hist>>
  /\ UNCHANGED obs
  /\ UNCHANGED refreshedSince
  /\ UNCHANGED aux

\* ------------------------------------------------- generate / generateSongs
\* generate: await this.keepAlive(false), then generateSongs(...).
GenerateEnter ==
  /\ pc = "generate_enter"
  /\ KeepAliveEnter(FALSE, "songs_enter")
  /\ UNCHANGED <<fields, op, renewResponse, songs, now, result, lastRenewal,
                 lastCheck, lyricsCheck, refreshed, nSubmit, polled, lyricsPolls>>
  /\ UNCHANGED obs
  /\ UNCHANGED refreshedSince
  /\ UNCHANGED aux

\* generateSongs: await this.keepAlive(false).  custom_generate starts here.
SongsEnter ==
  /\ pc = "songs_enter"
  /\ KeepAliveEnter(FALSE, "songs_post")
  /\ UNCHANGED <<fields, op, renewResponse, songs, now, result, lastRenewal,
                 lastCheck, lyricsCheck, refreshed, nSubmit, polled, lyricsPolls>>
  /\ UNCHANGED obs
  /\ UNCHANGED refreshedSince
  /\ UNCHANGED aux

\* generateSongs: the payload is built and posted to the generation endpoint.
SongsPost ==
  /\ pc = "songs_post"
  /\ pc' = "songs_wait"
  /\ out' = Request("submit")
  /\ nSubmit' = nSubmit + 1
  /\ UNCHANGED <<fields, op, ka, songs, now, result, error, lastRenewal,
                 lastCheck, lyricsCheck, refreshed, renewSent, polled, lyricsPolls>>
  /\ served' = TRUE
  /\ UNCHANGED <<identity, submitStatus>>
  /\ UNCHANGED refreshedSince
  /\ UNCHANGED aux

\* The HTTP statuses the generation endpoint may answer with: 200, another
\* 2xx, a non-2xx.
SubmitStatuses == {"200", "2xx", "non2xx"}

\* OnSubmitStatus with the status ignored.
OnSubmitStatus_Ignored(st) == "go on"

\* What generateSongs does with a submission answered with status st: "throw"
\* (the transport rejects a non-2xx; response.status !== 200 throws for the
\* rest) or "go on".
OnSubmitStatus(st) == IF st = "200" THEN "go on" ELSE "throw"

\* The ids of the clips of a submission response.
Ids(cs) == [i \in 1..Len(cs) |-> cs[i].id]

\* The submission answers: a transport failure (the 10 s timeout included), a
\* status that is not 200, or 200 with the clips.  With wait_audio the polling
\* starts (startTime = Date.now(), from which now is counted from here on,
\* then sleep(5, 5)); without it keepAlive(true) is called.
SubmitRespond ==
  /\ pc = "songs_wait"
  /\ \E lat \in Latency(SUBMIT_TIMEOUT) :
       \/ /\ pc' = "error"
          /\ error' = "TransportError"
          /\ out' = NoReq
          /\ now' = now + lat
          /\ UNCHANGED <<songs, kaRet, isWait, renewSent, submitStatus>>
       \/ \E st \in SubmitStatuses, cs \in Snapshots :
            /\ submitStatus' = st
            /\ IF OnSubmitStatus(st) = "throw"
               THEN /\ pc' = "error"
                    /\ error' = "RequestError"
                    /\ out' = NoReq
                    /\ now' = now + lat
                    /\ UNCHANGED <<songs, kaRet, isWait, renewSent>>
               ELSE /\ songIds' = Ids(cs)
                    /\ IF wait_audio
                       THEN /\ now' = 0
                            /\ startTime' = now'
                            /\ lastResponse' = <<>>
                            /\ pc' = "poll_first_sleep"
                            /\ out' = NoReq
                            /\ UNCHANGED <<clips, error, kaRet, isWait, renewSent>>
                       ELSE /\ now' = now + lat
                            /\ clips' = cs
                            /\ KeepAliveEnter(TRUE, "songs_map")
                            /\ UNCHANGED <<startTime, lastResponse>>
                    /\ UNCHANGED wait_audio
  /\ UNCHANGED <<fields, op, renewResponse, result, lastRenewal, lastCheck,
                 lyricsCheck, refreshed, nSubmit, polled, lyricsPolls>>
  /\ UNCHANGED <<identity, served>>
  /\ UNCHANGED refreshedSince
  /\ UNCHANGED aux

\* The record generateSongs makes of a raw clip (wait_audio false).
ClipToAudioInfo(audio) ==
  [id |-> audio.id, status |-> audio.status,
   lyric |-> audio.prompt, prompt |-> audio.prompt]

\* MapClips with the clips taken last to first.
MapClips_Reversed(cs) ==
  [i \in 1..Len(cs) |-> ClipToAudioInfo(cs[Len(cs) + 1 - i])]

\* response.data['clips'].map(...): one record per clip, in the clips' order.
MapClips(cs) == [i \in 1..Len(cs) |-> ClipToAudioInfo(cs[i])]

\* generateSongs without wait_audio: the clips are mapped and returned.
SongsMapReturn ==
  /\ pc = "songs_map"
  /\ pc' = "done"
  /\ result' = [tag |-> "audios", val |-> MapClips(clips)]
  /\ out' = NoReq
  /\ UNCHANGED <<fields, op, ka, songs, now, error, hist>>
  /\ UNCHANGED obs
  /\ UNCHANGED refreshedSince
  /\ UNCHANGED aux

\* ---------------------------------------------------------------- polling
\* response.every(audio => audio.status === 'streaming' || 'complete')
AllCompleted(response) ==
  \A i \in 1..Len(response) : response[i].status \in {"streaming", "complete"}

\* while (Date.now() - startTime < 100000)
PollGoesOn == now - startTime < POLL_TIMEOUT

\* sleep(5, 5) ends: the loop condition is evaluated for the first time.
PollFirstSleep ==
  /\ pc = "poll_first_sleep"
  /\ \E d \in Sleep(FIRST_SLEEP, FIRST_SLEEP) : now' = now + d
  /\ pc' = "poll_head"
  /\ out' = NoReq
  /\ UNCHANGED <<fields, op, ka, songs, result, error, hist>>
  /\ UNCHANGED obs
  /\ UNCHANGED refreshedSince
  /\ UNCHANGED aux

\* The loop condition: another status check (this.get(songIds)), or the
\* timeout's return lastResponse.
PollHead ==
  /\ pc = "poll_head"
  /\ out' = NoReq
  /\ IF PollGoesOn
     THEN /\ pc' = "get_enter"
          /\ UNCHANGED result
     ELSE /\ pc' = "done"
          /\ result' = [tag |-> "audios", val |-> lastResponse]
  /\ UNCHANGED <<fields, op, ka, songs, now, error, hist>>
  /\ UNCHANGED obs
  /\ UNCHANGED refreshedSince
  /\ UNCHANGED aux

\* sleep(3, 6) ends and keepAlive(true) is called.
PollSleep ==
  /\ pc = "poll_sleep"
  /\ \E d \in Sleep(POLL_SLEEP_MIN, POLL_SLEEP_MAX) : now' = now + d
  /\ KeepAliveEnter(TRUE, "poll_head")
  /\ UNCHANGED <<fields, op, renewResponse, songs, result, lastRenewal,
                 lastCheck, lyricsCheck, refreshed, nSubmit, polled, lyricsPolls>>
  /\ UNCHANGED obs
  /\ UNCHANGED refreshedSince
  /\ UNCHANGED aux

\* ------------------------------------------------------------------------ get
\* get: await this.keepAlive(false).  The public get starts here, and so does
\* each status check of the polling loop.
GetEnter ==
  /\ pc = "get_enter"
  /\ KeepAliveEnter(FALSE, "get_send")
  /\ UNCHANGED <<fields, op, renewResponse, songs, now, result, lastRenewal,
                 lastCheck, lyricsCheck, refreshed, nSubmit, polled, lyricsPolls>>
  /\ UNCHANGED obs
  /\ UNCHANGED refreshedSince
  /\ UNCHANGED aux

\* get: the feed request is sent.
GetSend ==
  /\ pc = "get_send"
  /\ pc' = "get_wait"
  /\ out' = Request("feed")
  /\ polled' = TRUE
  /\ UNCHANGED <<fields, op, ka, songs, now, result, error, lastRenewal,
                 lastCheck, lyricsCheck, refreshed, renewSent, nSubmit, lyricsPolls>>
  /\ served' = TRUE
  /\ UNCHANGED <<identity, submitStatus>>
  /\ refreshedSince' = FALSE
  /\ UNCHANGED aux

\* ---------------------------------------------------------------- parseLyrics
\* prompt.split('\n'): the pieces between the newlines, empty ones included;
\* a string without a newline is its only piece.
RECURSIVE Split(_)
Split(str) ==
  IF \A i \in 1..Len(str) : str[i] # "\n"
  THEN <<str>>
  ELSE LET k == CHOOSE i \in 1..Len(str) :
                  str[i] = "\n" /\ \A j \in 1..(i - 1) : str[j] # "\n"
       IN <<SubSeq(str, 1, k - 1)>> \o Split(SubSeq(str, k + 1, Len(str)))

\* The characters String.prototype.trim removes.
WhiteSpace == {" ", "\n"}

\* line.trim(): the line without its leading and trailing white space.
RECURSIVE Trim(_)
Trim(line) ==
  IF line = <<>> THEN <<>>
  ELSE IF Head(line) \in WhiteSpace THEN Trim(Tail(line))
  ELSE IF line[Len(line)] \in WhiteSpace THEN Trim(SubSeq(line, 1, Len(line) - 1))
  ELSE line

\* .filter(line => line.trim() !== '')
RECURSIVE FilterLines(_)
FilterLines(lines) ==
  IF lines = <<>> THEN <<>>
  ELSE IF Trim(Head(lines)) # <<>>
       THEN <<Head(lines)>> \o FilterLines(Tail(lines))
       ELSE FilterLines(Tail(lines))

\* lines.join('\n')
RECURSIVE Join(_)
Join(lines) ==
  IF lines = <<>> THEN <<>>
  ELSE IF Len(lines) = 1 THEN Head(lines)
  ELSE Head(lines) \o <<"\n">> \o Join(Tail(lines))

\* parseLyrics without its filter.
ParseLyrics_Unfiltered(prompt) == Join(Split(prompt))

\* parseLyrics(prompt)
ParseLyrics(prompt) == Join(FilterLines(Split(prompt)))

\* audio.metadata.prompt ? ... : ...  (undefined and "" are falsy)
Truthy(prompt) == prompt # NoPrompt /\ prompt # <<>>

\* The record get makes of a raw feed entry.
FeedToAudioInfo(audio) ==
  [id |-> audio.id, status |-> audio.status,
   lyric |-> IF Truthy(audio.prompt) THEN ParseLyrics(audio.prompt) ELSE <<>>,
   prompt |-> audio.prompt]

\* OnStatusCheck returning only when every record is 'complete'.
OnStatusCheck_OnlyComplete(response) ==
  IF \A i \in 1..Len(response) : response[i].status = "complete"
  THEN "return" ELSE "go on"

\* What the polling loop does with the records of a status check: "return"
\* them, or "go on" polling.
OnStatusCheck(response) == IF AllCompleted(response) THEN "return" ELSE "go on"

\* LastResponseAfter with the assignment lastResponse = response forgotten.
LastResponseAfter_Forgotten(response) == lastResponse

\* The lastResponse of the polling loop after a status check that goes on.
LastResponseAfter(response) == response

\* What the feed endpoint may answer: asked for ids (the polling loop), some
\* of these jobs; asked without (a public get), any jobs.
FeedAnswers ==
  IF op \in GenOps
  THEN {s \in Snapshots :
          \A i \in 1..Len(s) : \E j \in 1..Len(songIds) : s[i].id = songIds[j]}
  ELSE Snapshots

\* The feed request answers (or fails, its 3 s timeout included); get maps the
\* entries and returns them: to its caller, or to the polling loop, which
\* returns them when all are completed and else remembers them and sleeps.
GetRespond ==
  /\ pc = "get_wait"
  /\ out' = NoReq
  /\ \E lat \in Latency(FEED_TIMEOUT) :
       /\ now' = now + lat
       /\ \/ /\ pc' = "error"
             /\ error' = "TransportError"
             /\ UNCHANGED <<result, lastResponse, lastCheck>>
          \/ \E raw \in FeedAnswers :
               LET response == [i \in 1..Len(raw) |-> FeedToAudioInfo(raw[i])]
               IN /\ lastCheck' = response
                  /\ UNCHANGED error
                  /\ IF op \in GenOps /\ OnStatusCheck(response) = "go on"
                     THEN /\ lastResponse' = LastResponseAfter(response)
                          /\ pc' = "poll_sleep"
                          /\ UNCHANGED result
                     ELSE /\ pc' = "done"
                          /\ result' = [tag |-> "audios", val |-> response]
                          /\ UNCHANGED lastResponse
  /\ UNCHANGED <<fields, op, ka, wait_audio, clips, songIds, startTime,
                 lastRenewal, lyricsCheck, refreshed, renewSent, nSubmit, polled,
                 lyricsPolls>>
  /\ UNCHANGED obs
  /\ UNCHANGED refreshedSince
  /\ UNCHANGED aux

\* ------------------------------------------------------------- generateLyrics
\* The bodies the lyrics-status endpoint may answer with.
LyricsBodies == [status : LyricsStatus \cup {None}, text : LyricsTexts]

\* LyricsEnter without the keepAlive call.
LyricsEnter_NoRefresh ==
  /\ pc = "lyrics_enter"
  /\ pc' = "lyrics_post"
  /\ out' = NoReq
  /\ UNCHANGED <<fields, op, ka, songs, now, result, error, hist, obs>>
  /\ UNCHANGED refreshedSince
  /\ UNCHANGED aux

\* generateLyrics: await this.keepAlive(false)
LyricsEnter ==
  /\ pc = "lyrics_enter"
  /\ KeepAliveEnter(FALSE, "lyrics_post")
  /\ UNCHANGED <<fields, op, renewResponse, songs, now, result, lastRenewal,
                 lastCheck, lyricsCheck, refreshed, nSubmit, polled, lyricsPolls>>
  /\ UNCHANGED obs
  /\ UNCHANGED refreshedSince
  /\ UNCHANGED aux

\* generateLyrics: the lyrics job is posted.
LyricsPost ==
  /\ pc = "lyrics_post"
  /\ pc' = "lyrics_post_wait"
  /\ out' = Request("lyrics_submit")
  /\ UNCHANGED <<fields, op, ka, songs, now, result, error, hist>>
  /\ served' = TRUE
  /\ UNCHANGED <<identity, submitStatus>>
  /\ UNCHANGED refreshedSince
  /\ UNCHANGED aux

\* The lyrics submission answers; the first lyrics-status request is sent.
LyricsSubmitRespond ==
  /\ pc = "lyrics_post_wait"
  /\ \E lat \in LatencyNoTimeout :
       /\ now' = now + lat
       /\ \/ /\ pc' = "error"
             /\ error' = "TransportError"
             /\ out' = NoReq
             /\ UNCHANGED <<lyricsPolls, refreshedSince>>
          \/ /\ pc' = "lyrics_wait"
             /\ out' = Request("lyrics_status")
             /\ lyricsPolls' = lyricsPolls + 1
             /\ refreshedSince' = FALSE
             /\ UNCHANGED error
  /\ UNCHANGED <<fields, op, ka, songs, result, lastRenewal, lastCheck,
                 lyricsCheck, refreshed, renewSent, nSubmit, polled>>
  /\ UNCHANGED obs
  /\ UNCHANGED aux

\* OnLyricsCheck going on only while the status is 'running'.
OnLyricsCheck_NotRunning(body) == IF body.status = "running" THEN "go on" ELSE "return"

\* while (lyricsResponse?.data?.status !== 'complete'): what the loop does
\* with the body of a lyrics-status answer.
OnLyricsCheck(body) == IF body.status # "complete" THEN "go on" ELSE "return"

\* A lyrics-status request answers: the loop ends and the body is returned,
\* or the loop sleeps.
LyricsRespond ==
  /\ pc = "lyrics_wait"
  /\ out' = NoReq
  /\ \E lat \in LatencyNoTimeout :
       /\ now' = now + lat
       /\ \/ /\ pc' = "error"
             /\ error' = "TransportError"
             /\ UNCHANGED <<result, lyricsCheck>>
          \/ \E body \in LyricsBodies :
               /\ lyricsCheck' = body
               /\ UNCHANGED error
               /\ IF OnLyricsCheck(body) = "go on"
                  THEN /\ pc' = "lyrics_sleep"
                       /\ UNCHANGED result
                  ELSE /\ pc' = "done"
                       /\ result' = [tag |-> "lyrics", val |-> <<body>>]
  /\ UNCHANGED <<fields, op, ka, songs, lastRenewal, lastCheck, refreshed,
                 renewSent, nSubmit, polled, lyricsPolls>>
  /\ UNCHANGED obs
  /\ UNCHANGED refreshedSince
  /\ UNCHANGED aux

\* sleep(2) ends and the next lyrics-status request is sent.
LyricsSleep ==
  /\ pc = "lyrics_sleep"
  /\ lyricsPolls < MaxLyricsPolls
  /\ \E d \in Sleep(LYRICS_SLEEP, LYRICS_SLEEP) : now' = now + d
  /\ pc' = "lyrics_wait"
  /\ out' = Request("lyrics_status")
  /\ lyricsPolls' = lyricsPolls + 1
  /\ UNCHANGED <<fields, op, ka, songs, result, error, lastRenewal, lastCheck,
                 lyricsCheck, refreshed, renewSent, nSubmit, polled>>
  /\ UNCHANGED obs
  /\ refreshedSince' = FALSE
  /\ UNCHANGED aux

\* ---------------------------------------------------------------- get_credits
\* get_credits: await this.keepAlive(false)
CreditsEnter ==
  /\ pc = "credits_enter"
  /\ KeepAliveEnter(FALSE, "credits_send")
  /\ UNCHANGED <<fields, op, renewResponse, songs, now, result, lastRenewal,
                 lastCheck, lyricsCheck, refreshed, nSubmit, polled, lyricsPolls>>
  /\ UNCHANGED obs
  /\ UNCHANGED refreshedSince
  /\ UNCHANGED aux

\* get_credits: the billing request is sent.
CreditsSend ==
  /\ pc = "credits_send"
  /\ pc' = "credits_wait"
  /\ out' = Request("billing")
  /\ UNCHANGED <<fields, op, ka, songs, now, result, error, hist>>
  /\ served' = TRUE
  /\ UNCHANGED <<identity, submitStatus>>
  /\ UNCHANGED refreshedSince
  /\ UNCHANGED aux

\* The billing request answers.
CreditsRespond ==
  /\ pc = "credits_wait"
  /\ out' = NoReq
  /\ \E lat \in LatencyNoTimeout :
       /\ now' = now + lat
       /\ \/ /\ pc' = "error"
             /\ error' = "TransportError"
             /\ UNCHANGED result
          \/ /\ pc' = "done"
             /\ result' = [tag |-> "credits", val |-> <<>>]
             /\ UNCHANGED error
  /\ UNCHANGED <<fields, op, ka, songs, hist>>
  /\ UNCHANGED obs
  /\ UNCHANGED refreshedSince
  /\ UNCHANGED aux

\* ---------------------------------------------------------------- the system
Next ==
  \/ \E o \in PublicOps, w \in BOOLEAN : Call(o, w)
  \/ KeepAliveCall
  \/ RenewRespond
  \/ KeepAliveWake
  \/ KeepAliveReturn
  \/ InitEnter
  \/ IdentityRespond
  \/ InitKeepAlive
  \/ InitReturn
  \/ GenerateEnter
  \/ SongsEnter
  \/ SongsPost
  \/ SubmitRespond
  \/ SongsMapReturn
  \/ PollFirstSleep
  \/ PollHead
  \/ PollSleep
  \/ GetEnter
  \/ GetSend
  \/ GetRespond
  \/ LyricsEnter
  \/ LyricsPost
  \/ LyricsSubmitRespond
  \/ LyricsRespond
  \/ LyricsSleep
  \/ CreditsEnter
  \/ CreditsSend
  \/ CreditsRespond

Spec == Init /\ [][Next]_vars

\* ------------------------------------------------------------ type invariant
(***************************************************************************)
(* The two mappings alone.  A raw clip with any prompt of Prompts is given *)
(* to the mapping of generateSongs (wait_audio false) and to the mapping   *)
(* of get; the client's variables stay as the constructor left them.       *)
(***************************************************************************)
RawClips == [id : JobIds, status : Status, prompt : Prompts]

MapInit ==
  /\ ClientInit
  /\ clip \in RawClips
  /\ fromGenerate = NoRecord
  /\ fromGet = NoRecord
  /\ race = NoRace

\* generateSongs maps the clip.
MapByGenerate ==
  /\ fromGenerate = NoRecord
  /\ fromGenerate' = ClipToAudioInfo(clip)
  /\ UNCHANGED <<client, clip, fromGet, race>>

\* get maps the clip.
MapByGet ==
  /\ fromGet = NoRecord
  /\ fromGet' = FeedToAudioInfo(clip)
  /\ UNCHANGED <<client, clip, fromGenerate, race>>

MapNext == MapByGenerate \/ MapByGet

SpecMap == MapInit /\ [][MapNext]_vars

(***************************************************************************)
(* Two callers on one instance, with no synchronisation.  Each call runs   *)
(* as the code does, one continuation at a time, but the continuations of  *)
(* the two calls interleave at the awaits.  The callers call keepAlive     *)
(* (with either isWait) and get_credits; the service issues a new token    *)
(* with every renewal it answers.                                          *)
(***************************************************************************)
\* The tokens of the service in the order it issues them: init's first.
Serial == <<"jwt1", "jwt2", "jwt3", "jwt4", "jwt5", "jwt6">>
\* The position of token t in that order.
Rank(t) == CHOOSE i \in 1..Len(Serial) : Serial[i] = t
\* The token the service issued last.
LatestIssued == Serial[race.issued + 1]

\* newSunoApi: init has succeeded, with the first token.
RaceStart ==
  /\ ~race.on
  /\ sid = None
  /\ sid' \in SessionIds
  /\ currentToken' = Serial[1]
  /\ race' = [race EXCEPT !.on = TRUE]
  /\ UNCHANGED <<op, pc, ka, songs, now, result, error, out, hist, obs,
                 refreshedSince, clip, fromGenerate, fromGet>>

\* Caller p calls keepAlive(w) or get_credits(); both begin with keepAlive,
\* which posts the renewal request (sid is set).
RaceCall(p, o, w) ==
  /\ race.on
  /\ race.pc[p] \in Quiescent
  /\ race.calls < MaxRaceCalls
  /\ o = "get_credits" => ~w
  /\ race' = [race EXCEPT !.op[p] = o,
                          !.pc[p] = "ka_post",
                          !.isWait[p] = w,
                          !.jwt[p] = None,
                          !.calls = @ + 1,
                          !.overlapped =
                             @ \/ \E q \in Procs \ {p} : race.pc[q] \notin Quiescent]
  /\ UNCHANGED <<client, clip, fromGenerate, fromGet>>

\* The renewal request of p answers: it fails and p's call throws, or the
\* service issues its next token, which keepAlive(false) stores and
\* keepAlive(true) keeps in renewResponse through its sleep.
RaceRenewRespond(p) ==
  /\ race.on
  /\ race.pc[p] = "ka_post"
  /\ \/ /\ race' = [race EXCEPT !.pc[p] = "error"]
        /\ UNCHANGED currentToken
     \/ LET jwt == Serial[race.issued + 2]
        IN IF race.isWait[p]
           THEN /\ race' = [race EXCEPT !.pc[p] = "ka_sleep",
                                        !.jwt[p] = jwt,
                                        !.issued = @ + 1]
                /\ UNCHANGED currentToken
           ELSE /\ currentToken' = jwt
                /\ race' = [race EXCEPT
                              !.pc[p] = IF race.op[p] = "get_credits"
                                        THEN "credits_send" ELSE "done",
                              !.jwt[p] = jwt,
                              !.issued = @ + 1,
                              !.overwroteNewer = @ \/ Rank(jwt) < Rank(currentToken)]
  /\ UNCHANGED <<sid, op, pc, ka, songs, now, result, error, out, hist, obs,
                 refreshedSince, clip, fromGenerate, fromGet>>

\* The sleep of p's keepAlive(true) ends: the token is stored.
RaceWake(p) ==
  /\ race.on
  /\ race.pc[p] = "ka_sleep"
  /\ currentToken' = race.jwt[p]
  /\ race' = [race EXCEPT
                !.pc[p] = "done",
                !.overwroteNewer = @ \/ Rank(race.jwt[p]) < Rank(currentToken)]
  /\ UNCHANGED <<sid, op, pc, ka, songs, now, result, error, out, hist, obs,
                 refreshedSince, clip, fromGenerate, fromGet>>

\* get_credits of p sends its request, with the token the interceptor reads
\* from the field now.
RaceSend(p) ==
  /\ race.on
  /\ race.pc[p] = "credits_send"
  /\ race' = [race EXCEPT
                !.pc[p] = "done",
                !.sentSuperseded = @ \/ Request("billing").auth # LatestIssued]
  /\ UNCHANGED <<client, clip, fromGenerate, fromGet>>

RaceNext ==
  \/ RaceStart
  \/ \E p \in Procs, o \in {"keepAlive", "get_credits"}, w \in BOOLEAN :
       RaceCall(p, o, w)
  \/ \E p \in Procs : RaceRenewRespond(p)
  \/ \E p \in Procs : RaceWake(p)
  \/ \E p \in Procs : RaceSend(p)

SpecRace == Init /\ [][RaceNext]_vars

\* The arrays of AudioInfo records get may return.
AudioInfos == {[i \in 1..Len(s) |-> FeedToAudioInfo(s[i])] : s \in Snapshots}

TypeOK ==
  /\ sid \in SessionIds \cup {None}
  /\ currentToken \in Tokens \cup {None}
  /\ op \in PublicOps \cup {"none"}
  /\ isWait \in BOOLEAN
  /\ wait_audio \in BOOLEAN
  /\ clips \in Snapshots
  /\ lastResponse \in AudioInfos
  /\ lastCheck \in AudioInfos
  /\ refreshedSince \in BOOLEAN
  /\ now \in Nat
  /\ startTime \in Nat
  /\ error \in {"none", "AuthError", "StateError", "RequestError", "TransportError"}
  /\ out.kind \in AuthKinds \cup {"none", "identity", "renew"}
  /\ nSubmit \in Nat
  /\ lyricsPolls \in 0..MaxLyricsPolls

\* ------------------------------------------------------------------ claims
\* A generate or custom_generate call with wait_audio has returned.
PollReturned == op \in GenOps /\ wait_audio /\ pc = "done"

\* Every record of a snapshot is 'streaming' or 'complete'.
EveryJobTerminal(snap) ==
  \A i \in 1..Len(snap) : snap[i].status \in {"streaming", "complete"}

\* Job id is listed in a snapshot, as 'streaming' or 'complete'.
ReportedTerminal(id, snap) ==
  \E i \in 1..Len(snap) :
    snap[i].id = id /\ snap[i].status \in {"streaming", "complete"}

\* The longest pause the polling loop itself puts between two status checks:
\* sleep(3, 6), then the sleep(1, 2) of keepAlive(true).
PollInterval == POLL_SLEEP_MAX + KA_SLEEP_MAX

\* C1: polling returns within the timeout plus one polling interval of its
\* start, whatever the service does.
C1_PollReturnsInTime ==
  PollReturned => now - startTime <= POLL_TIMEOUT + PollInterval

\* C2: polling returns before the timeout has elapsed only if every requested
\* job id is reported 'streaming' or 'complete' in the snapshot returned.
C2_EarlyReturnOnlyWhenAllTerminal ==
  (PollReturned /\ now - startTime < POLL_TIMEOUT)
    => \A j \in 1..Len(songIds) : ReportedTerminal(songIds[j], result.val)

\* C3: a status check of the polling loop whose records are all 'complete' or
\* 'streaming' ends the polling in the step that receives it: the call returns
\* that check's records, and the step sends no request and stores no token.
C3_CompleteEndsPolling ==
  [][(pc = "get_wait" /\ op \in GenOps /\ pc' # "error" /\ EveryJobTerminal(lastCheck'))
       => /\ pc' = "done"
          /\ result' = [tag |-> "audios", val |-> lastCheck']
          /\ error' = "none"
          /\ out' = NoReq
          /\ currentToken' = currentToken]_vars

C3_Witness ==
  /\ PollReturned
  /\ now - startTime < POLL_TIMEOUT
  /\ Len(result.val) = 2
  /\ result.val = lastCheck
  /\ result.val[1].status = "streaming"
  /\ result.val[2].status = "complete"

\* C4: when the loop condition finds the timeout elapsed, the call returns
\* normally, with no error, the records of the latest status check.
C4_TimeoutReturnsLastSnapshot ==
  [][(pc = "poll_head" /\ now - startTime >= POLL_TIMEOUT)
       => /\ pc' = "done"
          /\ error' = "none"
          /\ result' = [tag |-> "audios", val |-> lastCheck]]_vars

C4_Witness ==
  /\ PollReturned
  /\ now - startTime >= POLL_TIMEOUT
  /\ error = "none"
  /\ result.val = lastCheck
  /\ Len(result.val) = 2
  /\ ~EveryJobTerminal(result.val)

\* C5: when the identity answer carries no session id, init fails with
\* AuthError, the session id stays unset and no renewal request is sent.
C5_NoSessionIdAuthError ==
  (op = "init" /\ identity = None)
    => /\ pc = "error"
       /\ error = "AuthError"
       /\ sid = None
       /\ ~renewSent
       /\ currentToken = None

C5_Witness ==
  op = "init" /\ identity = None /\ pc = "error" /\ error = "AuthError"

\* The public methods other than init: each begins with keepAlive.
RefreshingOps == PublicOps \ {"init"}
EntryLabels == {Entry(o) : o \in PublicOps}

\* C6: a public method called while no session id is set fails in keepAlive
\* with StateError: no renewal request and no other request is sent, and the
\* stored token stays as it was (absent).
C6_NoSessionNoRenewal ==
  (sid = None /\ op \in RefreshingOps /\ pc \notin EntryLabels)
    => /\ pc = "error"
       /\ error = "StateError"
       /\ ~renewSent
       /\ ~served
       /\ out = NoReq
       /\ currentToken = None
       /\ lastRenewal = None

C6_Witness ==
  /\ sid = None
  /\ op = "generateLyrics"
  /\ pc = "error"
  /\ error = "StateError"
  /\ ~renewSent

\* C7: every request to the service carries the token of the latest answered
\* renewal, and none is sent while no token is stored.
C7_RequestsCarryLatestToken ==
  out.kind \in AuthKinds
    => /\ out.auth = lastRenewal
       /\ out.auth # None
       /\ currentToken # None

\* The methods that send requests to the service.
ServiceOps ==
  {"generate", "custom_generate", "generateLyrics", "get", "get_credits"}

\* C8: in each of generate, custom_generate, generateLyrics, get and
\* get_credits no request to the service has been sent unless a keepAlive call
\* of the method has completed: the refresh comes first, and when it fails the
\* request is never sent.
C8_RefreshBeforeRequest ==
  (op \in ServiceOps /\ served) => (refreshed /\ renewSent)

C8_Witness ==
  /\ op = "generateLyrics"
  /\ out.kind = "lyrics_submit"
  /\ served
  /\ refreshed

C10_SubmitFailureNoPolling ==
  (op \in GenOps /\ submitStatus \notin {"unanswered", "200"})
    => /\ pc = "error"
       /\ error = "RequestError"
       /\ ~polled
       /\ result = NoResult
       /\ nSubmit = 1

C10_Witness ==
  /\ op \in GenOps
  /\ wait_audio
  /\ submitStatus = "non2xx"
  /\ pc = "error"
  /\ error = "RequestError"

\* C11: when wait_audio is false and the generation endpoint answered 200,
\* generate and custom_generate send no status check, and what they return
\* is one record per clip of the answer, in the clips' order, each with its
\* clip's id, status and prompt.
C11_NoWaitReturnsClipsInOrder ==
  (op \in GenOps /\ ~wait_audio /\ submitStatus = "200")
    => /\ ~polled
       /\ pc = "done"
         => /\ result.tag = "audios"
            /\ Len(result.val) = Len(clips)
            /\ \A i \in 1..Len(clips) :
                 /\ result.val[i].id = clips[i].id
                 /\ result.val[i].status = clips[i].status
                 /\ result.val[i].prompt = clips[i].prompt

C11_Witness ==
  /\ op \in GenOps
  /\ ~wait_audio
  /\ submitStatus = "200"
  /\ pc = "done"
  /\ Len(clips) = NumJobs
  /\ Len(result.val) = NumJobs
  /\ clips[1].status # clips[2].status

\* The positions that bound the lines of str: before its first character,
\* after its last, and each of its newlines.
Breaks(str) == {0, Len(str) + 1} \cup {i \in 1..Len(str) : str[i] = "\n"}
\* The k-th of them, in increasing order.
Break(str, k) ==
  CHOOSE b \in Breaks(str) : Cardinality({x \in Breaks(str) : x < b}) = k - 1
\* The lines of str: what stands between two successive breaks.
LinesOf(str) ==
  [k \in 1..(Cardinality(Breaks(str)) - 1) |->
     SubSeq(str, Break(str, k) + 1, Break(str, k + 1) - 1)]
\* A line with a character other than white space.
NotBlank(line) == \E i \in 1..Len(line) : line[i] \notin {" ", "\n"}
\* The lines of str that are neither empty nor white space only, in order.
KeptLines(str) == SelectSeq(LinesOf(str), NotBlank)

\* C12: the lyric of a record get makes is "" when the prompt is absent or
\* has no line other than empty and white-space-only ones; otherwise its
\* lines are exactly the prompt's other lines, in order, with one newline
\* between two of them.  Deriving the lyric of the lyric gives the lyric.
C12_LyricIsNonBlankLines ==
  fromGet # NoRecord
    => /\ IF clip.prompt = NoPrompt \/ KeptLines(clip.prompt) = <<>>
          THEN fromGet.lyric = <<>>
          ELSE LinesOf(fromGet.lyric) = KeptLines(clip.prompt)
       /\ FeedToAudioInfo([clip EXCEPT !.prompt = fromGet.lyric]).lyric = fromGet.lyric

C12_Witness ==
  /\ clip.prompt = <<"a", "\n", "a", "\n">>
  /\ fromGet # NoRecord
  /\ fromGet.lyric = <<"a", "\n", "a">>

\* C19: the record generateSongs (wait_audio false) makes of a raw clip and
\* the record get makes of the same clip are equal, field by field.
C19_MappingsAgree ==
  (fromGenerate # NoRecord /\ fromGet # NoRecord) => fromGenerate = fromGet

\* C13: this.sid is assigned only by init, when the identity request answers
\* with a session id, and only while it is unset: once set it never changes,
\* whatever the later methods do and whether they succeed or fail.
\* this.currentToken changes only inside keepAlive.
C13_FieldsWrittenOnlyByInitAndKeepAlive ==
  [][/\ sid' # sid
          => (sid = None /\ sid' \in SessionIds /\ op = "init" /\ pc = "init_wait")
     /\ currentToken' # currentToken => pc \in {"ka_post", "ka_sleep"}]_vars

C13_Witness ==
  /\ op \in GenOps
  /\ pc = "error"
  /\ error = "TransportError"
  /\ polled
  /\ sid \in SessionIds
  /\ currentToken = "jwt2"

\* C14: during the pause of keepAlive(true) the stored token is the one the
\* renewal request has just answered with.
C14_StoredBeforePause == pc = "ka_sleep" => currentToken = renewResponse

\* C16: a renewal request that fails makes keepAlive throw, and leaves
\* this.sid and this.currentToken as they were.
C16_FailedRenewalChangesNothing ==
  [][(pc = "ka_post" /\ pc' = "error")
       => (error' = "TransportError" /\ sid' = sid /\ currentToken' = currentToken)]_vars

C16_Witness ==
  /\ op = "keepAlive"
  /\ pc = "error"
  /\ error = "TransportError"
  /\ sid \in SessionIds
  /\ currentToken \in Tokens

\* init has succeeded on this instance.
Initialised == sid # None /\ ~(op = "init" /\ pc # "done")

\* C17: once init has succeeded the stored token is never absent.
C17_TokenNeverAbsent == Initialised => currentToken # None

\* A status check is sent in this step, and it is not the first of its loop.
NextAudioCheckSent == op \in GenOps /\ polled /\ pc = "get_send" /\ pc' = "get_wait"
NextLyricsCheckSent == pc = "lyrics_sleep" /\ pc' = "lyrics_wait"

\* C18: in the polling loop of generateSongs and in that of generateLyrics,
\* a keepAlive call has completed between a status check and the next one.
C18_RefreshBetweenChecks ==
  [][(NextAudioCheckSent \/ NextLyricsCheckSent) => refreshedSince]_vars

\* C15: two calls interleaved on one instance race on this.currentToken: a
\* token is stored over one the service issued later, and a request leaves
\* with a token that is not the latest issued.  Neither happens unless a
\* call began while another was under way.
C15_RaceOnlyWhenInterleaved ==
  (race.overwroteNewer \/ race.sentSuperseded) => race.overlapped

C15_Witness ==
  /\ race.overlapped
  /\ race.overwroteNewer
  /\ race.sentSuperseded
  /\ currentToken # LatestIssued

====
